---- MODULE Spec2Model ----
(***************************************************************************)
(* VirtualList (MHolmes91/virtual-list): a windowed list that keeps only a *)
(* chunk of rows as DOM nodes.  Two builds of the same design are modelled *)
(* side by side:                                                           *)
(*   "interval"  src/vlist.js          stale rows are swept by setInterval *)
(*   "throttle"  src/unnamed/part_000  stale rows are swept by a           *)
(*                                     lodash.throttle'd function called   *)
(*                                     from the scroll handler             *)
(* DOM nodes are integers: 0 is the scroller, n > 0 is the n-th <div> made *)
(* by document.createElement in generatorFn, -(k+1) is the pre-built       *)
(* element the caller passed as items[k].                                  *)
(***************************************************************************)
EXTENDS Integers, Sequences, FiniteSets, TLC

\* ------------------------------------------------------------- bounds
\* number of rows of the modelled lists
NumRows == 5
\* onScroll re-plans at most MaxPlans times in a behaviour
MaxPlans == 2

\* ------------------------------------------------------------- JS values
\* the value of a variable that was declared and never assigned
Undefined == -1

Variants == {"interval", "throttle"}

Min(a, b) == IF a < b THEN a ELSE b
Max(a, b) == IF a > b THEN a ELSE b
\* Math.abs
Abs(x) == IF x < 0 THEN 0 - x ELSE x
\* Math.ceil(a / b) for a >= 0, b > 0
Ceil(a, b) == (a + b - 1) \div b
\* parseInt(a / b): the quotient printed as a decimal and cut at the point,
\* i.e. truncated towards zero (a >= 0, b > 0 here, so the floor)
ParseIntDiv(a, b) == a \div b
\* JS truthiness of a number-or-undefined: undefined and 0 are falsy
Truthy(x) == x # Undefined /\ x # 0

\* ------------------------------------------------------------- items
\* An item is a string or a pre-built DOM element (tagged, since the code
\* branches on typeof).  items is 0-indexed like the JS array.
Str(s) == [type |-> "string", value |-> s, el |-> 0]
Elem(k) == [type |-> "element", value |-> "", el |-> 0 - (k + 1)]

TextItems == [i \in 0..(NumRows - 1) |-> Str("row")]
ElemItems == [i \in 0..(NumRows - 1) |-> Elem(i)]
\* a string, an element and an empty string; the other rows have no item
MixedItems == [i \in 0..2 |-> IF i = 0 THEN Str("row") ELSE IF i = 1 THEN Elem(i) ELSE Str("")]

\* The config objects the model constructs lists from; 0 is an option left out.
Configs ==
  { [h |-> 2, itemHeight |-> 2, items |-> TextItems, totalRows |-> 0, itemBuffer |-> 0],
    [h |-> 2, itemHeight |-> 2, items |-> ElemItems, totalRows |-> 0, itemBuffer |-> 0],
    [h |-> 2, itemHeight |-> 2, items |-> MixedItems, totalRows |-> NumRows, itemBuffer |-> 2] }

VARIABLES
  variant,           \* which build runs
  config,            \* the constructor's argument
  itemsInContainer,  \* this.itemsInContainer: index -> [status, node]
  children,          \* this.container's child nodes, in document order
  rowCount,          \* number of createRow calls so far
  planCount,         \* number of re-plans so far
  scrollTop,         \* container.scrollTop
  lastRepaintY,      \* closure variable of the constructor
  sinceScrolled,     \* Date.now() - lastScrolled
  untilTick,         \* "interval": time until the setInterval callback is due
  throttled,         \* "throttle": the closure state of lodash's debounced()
  op,                \* history: the handler that ran last
  planned,           \* history: that handler called _renderChunk
  swept,             \* history: that handler called the sweep ("no", "noop", "acted")
  revived,           \* history: Active indices that were Stale before a plan, since the last sweep
  removed,           \* history: the indices that handler deleted from the table
  plans              \* history: re-plans since construction or the last sweep that acted

vars == <<variant, config, itemsInContainer, children, rowCount, planCount, scrollTop,
          lastRepaintY, sinceScrolled, untilTick, throttled,
          op, planned, swept, revived, removed, plans>>

\* ------------------------------------------------------------- constructor values
itemHeight == config.itemHeight
items == config.items
\* this.totalRows = config.totalRows || this.items.length
totalRows == IF config.totalRows # 0 THEN config.totalRows ELSE Cardinality(DOMAIN items)
\* var screenItemsLen = Math.ceil(config.h / itemHeight)
screenItemsLen == Ceil(config.h, itemHeight)
\* the buffer the comment above the assignment announces ("Cache 4 times ...")
cachedItemsLen_timesFour == IF config.itemBuffer # 0 THEN config.itemBuffer ELSE screenItemsLen * 4
\* this.cachedItemsLen = config.itemBuffer ? config.itemBuffer : screenItemsLen * 3
cachedItemsLen == IF config.itemBuffer # 0 THEN config.itemBuffer ELSE screenItemsLen * 3
\* var maxBuffer = screenItemsLen * itemHeight
maxBuffer == screenItemsLen * itemHeight
\* the scroll offsets the container can take: the scroller is
\* itemHeight * totalRows high, the viewport config.h
MaxScroll == Max(0, itemHeight * totalRows - config.h)

Scroller == 0
SettleThreshold == 100
SweepInterval == 300

\* ------------------------------------------------------------- time
\* The code reads the clock only as differences: Date.now() - lastScrolled in
\* the sweeps, time - lastCallTime and time - lastInvokeTime in the throttle.
\* The model keeps these differences, and the delays left on the timers; the
\* clock moves in steps of the settle threshold.  A difference that has
\* passed every threshold it is compared with stays at its cap.
Quantum == SettleThreshold
ScrollAgeCap == SweepInterval + SettleThreshold + Quantum
Age(a, cap) == Min(a + Quantum, cap)
Left(d) == Max(d - Quantum, 0)

\* ------------------------------------------------------------- row factory
\* a row factory that makes an empty <div> whatever the item is
generatorFn_alwaysBlank(i, cnt) ==
  [node |-> cnt + 1, fresh |-> TRUE, text |-> "", textNode |-> FALSE]

\* VirtualList.prototype.generatorFn, in the cnt+1-th call of createRow: a
\* <div> made by document.createElement is a new node, numbered by the
\* call; an element item is returned as it is.
\* vlist.js tests items[i] for truthiness (an empty string is falsy),
\* part_000 tests typeof items[i] !== "undefined".
\* text is the textContent of a <div> the call made: the data of its text
\* node, or "" when it has none; textNode tells whether createTextNode ran.
generatorFn(i, cnt) ==
  LET present == IF variant = "interval"
                 THEN i \in DOMAIN items /\ ~(items[i].type = "string" /\ items[i].value = "")
                 ELSE i \in DOMAIN items
  IN IF present
     THEN IF items[i].type = "string"
          THEN [node |-> cnt + 1, fresh |-> TRUE, text |-> items[i].value, textNode |-> TRUE]
          ELSE [node |-> items[i].el, fresh |-> FALSE, text |-> "", textNode |-> FALSE]
     ELSE [node |-> cnt + 1, fresh |-> TRUE, text |-> "", textNode |-> FALSE]

\* VirtualList.prototype.createRow: the row factory's node, styled
createRow(i, cnt) == generatorFn(i, cnt)

\* obj[k] = v on a JS object used as a map
Put(obj, k, v) == [x \in DOMAIN obj \cup {k} |-> IF x = k THEN v ELSE obj[x]]
\* parent.removeChild(n) / the implicit removal when n is appended elsewhere
Detach(kids, n) == SelectSeq(kids, LAMBDA x : x # n)

\* the for loop of _renderChunk: each row is created, recorded as
\* {status: 1, node: row} and appended to the fragment (which takes it out
\* of the container if it is a child already); the fragment is appended to
\* the container at the end.
RECURSIVE renderLoop(_, _, _, _, _, _)
renderLoop(i, finalItem, tbl, kids, frag, cnt) ==
  IF i >= finalItem
  THEN [tbl |-> tbl, kids |-> kids \o frag, cnt |-> cnt]
  ELSE LET row == createRow(i, cnt)
       IN renderLoop(i + 1, finalItem,
                     Put(tbl, i, [status |-> 1, node |-> row.node]),
                     Detach(kids, row.node),
                     Append(Detach(frag, row.node), row.node),
                     cnt + 1)

\* a plan that starts from an empty table instead of marking the old entries
markAll_reset(tbl) == [k \in {} |-> [status |-> 0, node |-> 0]]

\* the first loop of _renderChunk: every entry is marked status 0
markAll(tbl) == [k \in DOMAIN tbl |-> [status |-> 0, node |-> tbl[k].node]]

\* a chunk that is not cut at the end of the list
finalItemOf_unclamped(from) == from + cachedItemsLen

\* the end of the chunk that starts at from
finalItemOf(from) ==
  IF from + cachedItemsLen > totalRows THEN totalRows ELSE from + cachedItemsLen

\* VirtualList.prototype._renderChunk(node, from)
renderChunk(tbl, kids, cnt, from) ==
  renderLoop(from, finalItemOf(from), markAll(tbl), kids, <<>>, cnt)

\* ------------------------------------------------------------- reclamation
\* a settle test that lets a sweep act exactly at the threshold
Settled_atThreshold(since) == since >= SettleThreshold

\* the settle test both sweeps start with: Date.now() - lastScrolled > 100
Settled(since) == since > SettleThreshold

\* an interval sweep that picks the entries by the wrong status
rmNodeIntervalFn_wrongStatus(tbl, kids) ==
  LET bad == {k \in DOMAIN tbl : tbl[k].status = 1}
      badNodes == {tbl[k].node : k \in bad}
  IN [tbl |-> [k \in DOMAIN tbl \ bad |-> tbl[k]],
      kids |-> SelectSeq(kids, LAMBDA x : x \notin badNodes)]

\* an interval sweep that deletes the entries and leaves their nodes attached
rmNodeIntervalFn_keepsNodes(tbl, kids) ==
  LET bad == {k \in DOMAIN tbl : tbl[k].status = 0}
  IN [tbl |-> [k \in DOMAIN tbl \ bad |-> tbl[k]], kids |-> kids]

\* vlist.js, the setInterval callback: every entry with status 0 is taken
\* out of the container and deleted from the table.
rmNodeIntervalFn(tbl, kids) ==
  LET bad == {k \in DOMAIN tbl : tbl[k].status = 0}
      badNodes == {tbl[k].node : k \in bad}
  IN [tbl |-> [k \in DOMAIN tbl \ bad |-> tbl[k]],
      kids |-> SelectSeq(kids, LAMBDA x : x \notin badNodes)]

\* the nodes of the entries of tbl with index >= i, in key order, appended
\* to kids one by one (appendChild moves a node that is a child already, so
\* a node stays where its last appendChild put it)
appendFrom(i, tbl, kids) ==
  LET K == {k \in DOMAIN tbl : k >= i}
      top == IF K = {} THEN i - 1 ELSE CHOOSE k \in K : \A x \in K : x <= k
      keys == SelectSeq([j \in 1..(top - i + 1) |-> i + j - 1], LAMBDA k : k \in K)
      seq == [j \in 1..Len(keys) |-> tbl[keys[j]].node]
      n == Len(seq)
      kept == SelectSeq([j \in 1..n |-> j], LAMBDA j : \A j2 \in (j + 1)..n : seq[j2] # seq[j])
  IN SelectSeq(kids, LAMBDA x : \A j \in 1..n : seq[j] # x)
       \o [p \in 1..Len(kept) |-> seq[kept[p]]]

\* a throttled sweep that rebuilds the container and forgets to replace the table
throttledRmNodeFn_keepsTable(tbl, kids) ==
  LET keep == {k \in DOMAIN tbl : tbl[k].status = 1}
      kept == [k \in keep |-> tbl[k]]
      first == IF Len(kids) > 1 THEN <<Head(kids)>> ELSE kids
  IN [tbl |-> tbl, kids |-> appendFrom(0, kept, first)]

\* part_000, the throttled function: the table keeps the entries with
\* status 1, every child but the first (the scroller) is removed, and the
\* nodes of the kept entries are appended again.
throttledRmNodeFn(tbl, kids) ==
  LET keep == {k \in DOMAIN tbl : tbl[k].status = 1}
      kept == [k \in keep |-> tbl[k]]
      first == IF Len(kids) > 1 THEN <<Head(kids)>> ELSE kids
  IN [tbl |-> kept, kids |-> appendFrom(0, kept, first)]

\* the sweep of the running build, guarded by the settle test
Sweep(tbl, kids, since) ==
  IF Settled(since)
  THEN LET w == IF variant = "interval" THEN rmNodeIntervalFn(tbl, kids)
                ELSE throttledRmNodeFn(tbl, kids)
       IN [tbl |-> w.tbl, kids |-> w.kids, acted |-> TRUE]
  ELSE [tbl |-> tbl, kids |-> kids, acted |-> FALSE]

\* ------------------------------------------------------------- lodash.throttle
\* throttle(func, 300, {leading: false, trailing: true}) is
\* debounce(func, 300, {leading: false, maxWait: 300, trailing: true}).
\* t is the closure state: lastArgs (set or not), sinceCall = time -
\* lastCallTime (Undefined before the first call), sinceInvoke = time -
\* lastInvokeTime, timerId (set or not) and timers, the delays left on the
\* pending setTimeout(timerExpired, ...) callbacks in the order they were set.
shouldInvoke(t) ==
  \/ t.sinceCall = Undefined
  \/ t.sinceCall >= SweepInterval
  \/ t.sinceCall < 0
  \/ t.sinceInvoke >= SweepInterval

remainingWait(t) ==
  Min(SweepInterval - t.sinceCall, SweepInterval - t.sinceInvoke)

\* debounced(): the new closure state and whether func is invoked now
debounced(t) ==
  LET c == [t EXCEPT !.lastArgs = TRUE, !.sinceCall = 0]
  IN IF shouldInvoke(t)
     THEN IF c.timerId = FALSE
          THEN \* leadingEdge, leading = false
               [t |-> [c EXCEPT !.sinceInvoke = 0, !.timerId = TRUE,
                                !.timers = Append(@, SweepInterval)],
                invoke |-> FALSE]
          ELSE \* maxing: "handle invocations in a tight loop"
               [t |-> [c EXCEPT !.timers = Append(@, SweepInterval),
                                !.lastArgs = FALSE, !.sinceInvoke = 0],
                invoke |-> TRUE]
     ELSE IF c.timerId = FALSE
          THEN [t |-> [c EXCEPT !.timerId = TRUE, !.timers = Append(@, SweepInterval)],
                invoke |-> FALSE]
          ELSE [t |-> c, invoke |-> FALSE]

\* s without its k-th element
Remove(s, k) == [j \in 1..(Len(s) - 1) |-> IF j < k THEN s[j] ELSE s[j + 1]]

\* timerExpired() for the k-th pending callback
timerExpired(t, k) ==
  LET c == [t EXCEPT !.timers = Remove(@, k)]
  IN IF shouldInvoke(c)
     THEN \* trailingEdge
          IF c.lastArgs
          THEN [t |-> [c EXCEPT !.timerId = FALSE, !.lastArgs = FALSE, !.sinceInvoke = 0],
                invoke |-> TRUE]
          ELSE [t |-> [c EXCEPT !.timerId = FALSE], invoke |-> FALSE]
     ELSE [t |-> [c EXCEPT !.timerId = TRUE, !.timers = Append(@, remainingWait(c))],
           invoke |-> FALSE]

\* the closure state a Quantum later
throttleLater(t) ==
  [t EXCEPT !.sinceCall = IF @ = Undefined THEN @ ELSE Age(@, SweepInterval),
            !.sinceInvoke = Age(@, SweepInterval),
            !.timers = [k \in 1..Len(@) |-> Left(@[k])]]

\* ------------------------------------------------------------- history
\* revived starts afresh in the step after a sweep that acted
Base == IF swept = "acted" THEN {} ELSE revived
\* the Active indices of `after` that a plan made Active again from Stale
Revive(tbl, after) ==
  {i \in DOMAIN after : after[i].status = 1 /\
      (i \in Base \/ (i \in DOMAIN tbl /\ tbl[i].status = 0))}
Saturate(n) == Min(n, totalRows)

\* ------------------------------------------------------------- Init
\* the state the constructor leaves: _renderChunk(this.container, 0) on an
\* empty table and a container holding the scroller; lastScrolled = 0 lies
\* further back than every threshold, and so does the throttle's
\* lastInvokeTime = 0
InitOf(configs) ==
  /\ variant \in Variants
  /\ config \in configs
  /\ LET r == renderChunk(<<>>, <<Scroller>>, 0, 0)
     IN /\ itemsInContainer = r.tbl
        /\ children = r.kids
        /\ rowCount = r.cnt
  /\ planCount = 0
  /\ scrollTop = 0
  /\ lastRepaintY = Undefined
  /\ sinceScrolled = ScrollAgeCap
  /\ untilTick = IF variant = "interval" THEN SweepInterval ELSE Undefined
  /\ throttled = [lastArgs |-> FALSE, sinceCall |-> Undefined, sinceInvoke |-> SweepInterval,
                  timerId |-> FALSE, timers |-> <<>>]
  /\ op = "construct"
  /\ planned = TRUE
  /\ swept = "no"
  /\ revived = {}
  /\ removed = {}
  /\ plans = 0

Init == InitOf(Configs)

\* ------------------------------------------------------------- actions
\* what onScroll's condition decides for the offset s
Replans(s) == ~Truthy(lastRepaintY) \/ Abs(s - lastRepaintY) > maxBuffer
\* a first row without the look-behind of one screen
FromOf_noLookBehind(s) == ParseIntDiv(s, itemHeight)

\* a first row that is not raised to 0 when the look-behind passes the top
FromOf_negative(s) == ParseIntDiv(s, itemHeight) - screenItemsLen

\* the index onScroll passes to _renderChunk for the offset s
FromOf(s) ==
  LET first == ParseIntDiv(s, itemHeight) - screenItemsLen
  IN IF first < 0 THEN 0 ELSE first

\* the scroll event at offset s, handled by onScroll.  part_000 calls the
\* throttled sweep right after _renderChunk, before lastScrolled is set.
onScroll(s) ==
  LET r == renderChunk(itemsInContainer, children, rowCount, FromOf(s))
      d == IF variant = "throttle" THEN debounced(throttled)
           ELSE [t |-> throttled, invoke |-> FALSE]
      w == IF d.invoke THEN Sweep(r.tbl, r.kids, sinceScrolled)
           ELSE [tbl |-> r.tbl, kids |-> r.kids, acted |-> FALSE]
  IN /\ scrollTop' = s
     /\ IF Replans(s)
        THEN /\ planCount < MaxPlans
             /\ planCount' = planCount + 1
             /\ itemsInContainer' = w.tbl
             /\ children' = w.kids
             /\ rowCount' = r.cnt
             /\ throttled' = d.t
             /\ lastRepaintY' = s
             /\ planned' = TRUE
             /\ swept' = IF d.invoke THEN (IF w.acted THEN "acted" ELSE "noop") ELSE "no"
             /\ revived' = Revive(itemsInContainer, r.tbl)
             /\ removed' = DOMAIN r.tbl \ DOMAIN w.tbl
             /\ plans' = IF w.acted THEN 0 ELSE Saturate(plans + 1)
        ELSE /\ planned' = FALSE
             /\ swept' = "no"
             /\ revived' = Base
             /\ removed' = {}
             /\ UNCHANGED <<itemsInContainer, children, rowCount, planCount, throttled, lastRepaintY, plans>>
     /\ sinceScrolled' = 0
     /\ op' = "scroll"
     /\ UNCHANGED <<variant, config, untilTick>>

Scroll == \E s \in 0..MaxScroll : onScroll(s)

\* vlist.js: the setInterval(..., 300) callback runs when it is due
IntervalTick ==
  /\ variant = "interval"
  /\ untilTick = 0
  /\ LET w == Sweep(itemsInContainer, children, sinceScrolled)
     IN /\ itemsInContainer' = w.tbl
        /\ children' = w.kids
        /\ swept' = IF w.acted THEN "acted" ELSE "noop"
        /\ removed' = DOMAIN itemsInContainer \ DOMAIN w.tbl
        /\ plans' = IF w.acted THEN 0 ELSE plans
  /\ untilTick' = SweepInterval
  /\ op' = "tick"
  /\ planned' = FALSE
  /\ revived' = Base
  /\ UNCHANGED <<variant, config, rowCount, planCount, scrollTop, lastRepaintY, sinceScrolled, throttled>>

\* the pending throttle callbacks that are due
DueTimers == {k \in 1..Len(throttled.timers) : throttled.timers[k] = 0}

\* part_000: the setTimeout(timerExpired, ...) that was set first among
\* those due runs
ThrottleTimer ==
  /\ variant = "throttle"
  /\ DueTimers # {}
  /\ LET k == CHOOSE x \in DueTimers : \A y \in DueTimers : x <= y
         e == timerExpired(throttled, k)
         w == IF e.invoke THEN Sweep(itemsInContainer, children, sinceScrolled)
              ELSE [tbl |-> itemsInContainer, kids |-> children, acted |-> FALSE]
     IN /\ throttled' = e.t
        /\ itemsInContainer' = w.tbl
        /\ children' = w.kids
        /\ swept' = IF e.invoke THEN (IF w.acted THEN "acted" ELSE "noop") ELSE "no"
        /\ removed' = DOMAIN itemsInContainer \ DOMAIN w.tbl
        /\ plans' = IF w.acted THEN 0 ELSE plans
  /\ op' = "timer"
  /\ planned' = FALSE
  /\ revived' = Base
  /\ UNCHANGED <<variant, config, rowCount, planCount, scrollTop, lastRepaintY, sinceScrolled, untilTick>>

\* a timer that is due runs before the clock moves on
TimerDue == IF variant = "interval" THEN untilTick = 0 ELSE DueTimers # {}

\* a Quantum of time passes
Advance ==
  /\ ~TimerDue
  /\ sinceScrolled' = Age(sinceScrolled, ScrollAgeCap)
  /\ untilTick' = IF variant = "interval" THEN Left(untilTick) ELSE untilTick
  /\ throttled' = IF variant = "throttle" THEN throttleLater(throttled) ELSE throttled
  /\ op' = "advance"
  /\ planned' = FALSE
  /\ swept' = "no"
  /\ revived' = Base
  /\ removed' = {}
  /\ UNCHANGED <<variant, config, itemsInContainer, children, rowCount, planCount, scrollTop,
                 lastRepaintY, plans>>

Next == Scroll \/ IntervalTick \/ ThrottleTimer \/ Advance

Spec == Init /\ [][Next]_vars

\* ------------------------------------------------------------- the scenario list
\* The list of the specification's scenario (section 8): 1000 textual rows
\* of height 20 in a viewport of height 200, default buffer; the scroll
\* events arrive at the scenario's offsets, at any time.
ScenarioConfig ==
  [h |-> 200, itemHeight |-> 20, items |-> [i \in 0..999 |-> Str("row")],
   totalRows |-> 1000, itemBuffer |-> 0]
ScenarioOffsets == {205, 3000}

ScenarioInit == InitOf({ScenarioConfig})
ScenarioScroll == \E s \in ScenarioOffsets : onScroll(s)
ScenarioNext == ScenarioScroll \/ IntervalTick \/ ThrottleTimer \/ Advance
ScenarioSpec == ScenarioInit /\ [][ScenarioNext]_vars

\* ------------------------------------------------------------- views of the state
ActiveSet == {i \in DOMAIN itemsInContainer : itemsInContainer[i].status = 1}
StaleSet == {i \in DOMAIN itemsInContainer : itemsInContainer[i].status = 0}
Attached == {children[k] : k \in 1..Len(children)}
RowNodes == Attached \ {Scroller}
ActiveNodes == {itemsInContainer[i].node : i \in ActiveSet}

TypeOK ==
  /\ variant \in Variants
  /\ config \in Configs \cup {ScenarioConfig}
  /\ \A i \in DOMAIN itemsInContainer : itemsInContainer[i].status \in {0, 1}
  /\ Len(children) >= 1 /\ children[1] = Scroller
  /\ planCount \in 0..MaxPlans
  /\ scrollTop \in 0..MaxScroll
  /\ lastRepaintY \in {Undefined} \cup (0..MaxScroll)
  /\ sinceScrolled \in 0..ScrollAgeCap
  /\ op \in {"construct", "scroll", "tick", "timer", "advance"}
  /\ planned \in BOOLEAN
  /\ swept \in {"no", "noop", "acted"}
  /\ Len(throttled.timers) <= 3

\* ------------------------------------------------------------- the specification's vocabulary
\* section 4.2: visibleCount, bufferSize and the range plan(a) = [first, last)
visibleCount == (config.h + config.itemHeight - 1) \div config.itemHeight
bufferSize == IF config.itemBuffer = 0 THEN 3 * visibleCount ELSE config.itemBuffer
WindowFirst(a) == Max(0, (a \div config.itemHeight) - visibleCount)
WindowLast(a) == Min(totalRows, WindowFirst(a) + bufferSize)
Window(a) == {i \in 0..(totalRows - 1) : WindowFirst(a) <= i /\ i < WindowLast(a)}
\* the offset of the most recent plan: 0 at construction
Anchor == IF lastRepaintY = Undefined THEN 0 ELSE lastRepaintY
Entries == DOMAIN itemsInContainer

TableAtSweep ==
  IF planned' THEN renderChunk(itemsInContainer, children, rowCount, FromOf(scrollTop')).tbl
  ELSE itemsInContainer

\* C2: an index made Active again after being Stale is not removed by the
\* next sweep; a sweep removes exactly the entries that are Stale when it
\* runs, and every Active entry keeps its node, attached, after it.
C2_SweepSparesActive ==
  /\ [](swept = "acted" =>
          \A i \in revived : i \in ActiveSet /\ itemsInContainer[i].node \in Attached)
  /\ [][swept' = "acted" =>
          /\ Entries' = {i \in DOMAIN TableAtSweep : TableAtSweep[i].status = 1}
          /\ \A i \in Entries' :
                /\ itemsInContainer'[i] = TableAtSweep[i]
                /\ itemsInContainer'[i].node \in Attached']_vars

\* a sweep has acted while an index revived by an earlier plan was Active,
\* and it removed something
C2_Witness ==
  /\ swept = "acted" /\ ~planned
  /\ revived # {}
  /\ Entries # 0..(totalRows - 1)
  /\ plans = 0

\* ------------------------------------------------------------- C3
\* C3: Stale entries are removed within the settle interval once scrolling
\* has stopped: they never outlive the last scroll signal by more than the
\* sweep interval plus the settle threshold.
C3_StaleReclaimedAfterSettle ==
  StaleSet # {} => sinceScrolled <= SweepInterval + SettleThreshold

\* ------------------------------------------------------------- C4
\* C4: entries are removed and nodes detached only when no scroll signal
\* came within the settle threshold; a tick within it changes nothing; and
\* every scroll signal, re-planning or not, resets the settle clock.
C4_SettleGuard ==
  [][ /\ (~(Entries \subseteq Entries') \/ ~(Attached \subseteq Attached'))
          => sinceScrolled > SettleThreshold
      /\ (op' \in {"tick", "timer"} /\ sinceScrolled <= SettleThreshold)
          => (itemsInContainer' = itemsInContainer /\ children' = children)
      /\ op' = "scroll" => sinceScrolled' = 0 ]_vars

\* a sweep ran within the settle threshold of a scroll that did not
\* re-plan, and left the Stale entries alone
C4_Witness ==
  /\ swept = "noop" /\ ~planned
  /\ StaleSet # {}
  /\ sinceScrolled <= SettleThreshold

\* ------------------------------------------------------------- C5
\* C5: a scroll signal at offset s re-plans, and sets the anchor to s, if
\* and only if the anchor is unset or |s - anchor| > maxBuffer =
\* visibleCount * rowHeight; otherwise table, tree and anchor are unchanged.
C5_ReplanIffDisplaced ==
  [][op' = "scroll" =>
       LET s == scrollTop'
           due == lastRepaintY = Undefined
                    \/ Abs(s - lastRepaintY) > visibleCount * config.itemHeight
       IN /\ planned' <=> due
          /\ due => lastRepaintY' = s
          /\ ~due => /\ itemsInContainer' = itemsInContainer
                     /\ children' = children
                     /\ lastRepaintY' = lastRepaintY]_vars

\* ------------------------------------------------------------- C6
\* C6 as stated: the number of Active entries equals min(bufferSize, totalRows).
C6_ActiveCountIsBuffer == Cardinality(ActiveSet) = Min(bufferSize, totalRows)

\* C6 as amended: the number of Active entries never exceeds
\* min(bufferSize, totalRows), and it equals min(bufferSize, totalRows - first),
\* first being the first row of the window: the full buffer unless the window
\* is cut by the end of the list.
C6_ActiveCountBounded ==
  /\ Cardinality(ActiveSet) <= Min(bufferSize, totalRows)
  /\ Cardinality(ActiveSet) = Min(bufferSize, totalRows - WindowFirst(Anchor))

\* a scroll near the end of the list has left fewer Active rows than the buffer
C6_Witness ==
  /\ op = "scroll" /\ planned
  /\ scrollTop <= MaxScroll
  /\ Cardinality(ActiveSet) < Min(bufferSize, totalRows)
  /\ Cardinality(ActiveSet) > 0

\* ------------------------------------------------------------- C7
\* C7: for textual items, right after a sweep that acted the row nodes in
\* the container are exactly the nodes of the Active entries, so at most
\* bufferSize of them.
C7_RowNodesAreActiveAfterSweep ==
  (swept = "acted" /\ config.items = TextItems) =>
     /\ RowNodes = ActiveNodes
     /\ Cardinality(RowNodes) <= bufferSize

\* ------------------------------------------------------------- C8
\* C8 as stated: the table never holds more than 2 * bufferSize entries.
C8_TwoWindows == Cardinality(Entries) <= 2 * bufferSize

\* C8 as amended: the table holds at most (k + 1) * bufferSize entries, k
\* being the number of re-plans since construction or the last sweep that
\* acted; so at most 2 * bufferSize while at most one re-plan happened since.
C8_WindowsSinceSweep ==
  /\ Cardinality(Entries) <= (plans + 1) * bufferSize
  /\ plans <= 1 => Cardinality(Entries) <= 2 * bufferSize

\* two re-plans without a sweep in between have left more than two windows
C8_Witness ==
  /\ op = "scroll" /\ planned /\ swept = "no"
  /\ plans = 2
  /\ Cardinality(Entries) > 2 * bufferSize

\* ------------------------------------------------------------- C9
\* C9: a re-plan whose range equals the current Active range changes
\* neither the table (indices, statuses, nodes) nor the attached nodes, and
\* does not call the row factory.
C9_SameRangeNoChurn ==
  [][(planned' /\ swept' = "no" /\ Window(scrollTop') = ActiveSet) =>
       /\ itemsInContainer' = itemsInContainer
       /\ Attached' = Attached
       /\ rowCount' = rowCount]_vars

\* ------------------------------------------------------------- C10
\* the first rows onScroll can pass to _renderChunk
Froms == {FromOf(s) : s \in 0..MaxScroll}

\* C10: a plan deletes nothing: whatever range [first, last) is planned in
\* a reachable state, every index stays in the table, every attached node
\* stays attached and every Active index outside the range becomes Stale;
\* and a step loses an index or a node only if a sweep acted in it.
C10_PlanNeverDeletes ==
  /\ [](\A first \in Froms :
          LET r == renderChunk(itemsInContainer, children, rowCount, first)
              last == Min(totalRows, first + bufferSize)
          IN /\ Entries \subseteq DOMAIN r.tbl
             /\ Attached \subseteq {r.kids[k] : k \in 1..Len(r.kids)}
             /\ \A i \in ActiveSet : (i < first \/ i >= last) => r.tbl[i].status = 0)
  /\ [][(~(Entries \subseteq Entries') \/ ~(Attached \subseteq Attached'))
          => swept' = "acted"]_vars

\* a re-plan has moved the window and left the rows behind it Stale, attached
C10_Witness ==
  /\ op = "scroll" /\ planned /\ swept = "no"
  /\ StaleSet # {}
  /\ \A i \in StaleSet : itemsInContainer[i].node \in Attached

\* ------------------------------------------------------------- C11
\* C11: a sweep that fires with the settle condition holding removes every
\* entry that is Stale at that moment from the table and from the container:
\* right after it the table holds no Stale entry, the removed indices are
\* exactly those that were Stale, and none of their nodes is attached.
C11_SweepRemovesStale ==
  /\ [](swept = "acted" => StaleSet = {})
  /\ [][swept' = "acted" =>
          LET stale == {i \in DOMAIN TableAtSweep : TableAtSweep[i].status = 0}
          IN /\ removed' = stale
             /\ Entries' \cap stale = {}
             /\ \A i \in stale : TableAtSweep[i].node \notin Attached']_vars

\* a sweep has acted after the settle threshold and removed Stale entries
C11_Witness ==
  /\ swept = "acted"
  /\ removed # {}
  /\ sinceScrolled > SettleThreshold

\* ------------------------------------------------------------- C12
\* the entries a plan called in this step leaves Stale
StaleAtPlan == {i \in DOMAIN TableAtSweep : TableAtSweep[i].status = 0}
\* the scenario so far: the first scroll signal came at 205 and was the
\* only re-plan
ScenarioAt205 == lastRepaintY = 205 /\ planCount = 1
\* the scenario so far: 205, then 3000, and no other re-plan
ScenarioAt3000 == lastRepaintY = 3000 /\ planCount = 2

C13_RangeClamped ==
  /\ [](Entries \subseteq 0..(totalRows - 1))
  /\ [](op = "construct" =>
          \A s \in 0..MaxScroll :
             /\ 0 <= FromOf(s)
             /\ finalItemOf(FromOf(s)) <= totalRows)
  /\ [][planned' =>
          /\ ActiveSet' \subseteq 0..(totalRows - 1)
          /\ rowCount' - rowCount = Cardinality(ActiveSet')]_vars

\* a plan near the end of the list, where first + bufferSize passes
\* totalRows, has created the last row and nothing beyond it
C13_Witness ==
  /\ op = "scroll" /\ planned
  /\ ParseIntDiv(scrollTop, itemHeight) - screenItemsLen + cachedItemsLen > totalRows
  /\ (totalRows - 1) \in ActiveSet
  /\ rowCount > cachedItemsLen

\* ------------------------------------------------------------- C14
\* the nodes the program has handed out so far
KnownNodes == Attached \cup {itemsInContainer[k].node : k \in Entries}

\* C14: the default row factory resolves every index of [0, totalRows) by a
\* three-way branch: a textual item (the empty string included) gives a new
\* container whose text content equals the item, a pre-built node gives that
\* very node, and an index without a backing item gives a new container
\* with empty content; and the rows a plan creates carry those nodes.
C14_FactoryThreeWay ==
  /\ [](\A i \in 0..(totalRows - 1) :
          LET g == generatorFn(i, rowCount)
          IN IF i \in DOMAIN items
             THEN IF items[i].type = "string"
                  THEN g.fresh /\ g.node \notin KnownNodes /\ g.text = items[i].value
                  ELSE ~g.fresh /\ g.node = items[i].el
             ELSE g.fresh /\ g.node \notin KnownNodes /\ g.text = "" /\ ~g.textNode)
  /\ [][planned' =>
          \A i \in ActiveSet' :
             LET n == itemsInContainer'[i].node
             IN IF i \in DOMAIN items /\ items[i].type = "element"
                THEN n = items[i].el
                ELSE n > rowCount /\ n \notin KnownNodes]_vars

\* the timer-driven build has made rows for a pre-built node (index 1), an
\* empty string (index 2) and an index without an item (index 3)
C14_Witness ==
  /\ config.items = MixedItems /\ variant = "interval"
  /\ op = "scroll" /\ planned
  /\ ActiveSet = {2, 3}
  /\ 1 \in StaleSet /\ itemsInContainer[1].node = items[1].el
  /\ itemsInContainer[2].node > 0 /\ itemsInContainer[3].node > 0
  /\ generatorFn(2, rowCount).text = items[2].value
  /\ ~generatorFn(2, rowCount).textNode

\* ------------------------------------------------------------- C15
\* C15: a plan whose range contains an index that is in the table as Stale
\* makes that entry Active again with the node it had, and does not call
\* the row factory for it.
C15_ResurrectKeepsNode ==
  [][planned' =>
       LET resurrected == StaleSet \cap ActiveSet'
       IN /\ \A i \in resurrected : itemsInContainer'[i].node = itemsInContainer[i].node
          /\ rowCount' - rowCount <= Cardinality(ActiveSet' \ resurrected)]_vars

\* ------------------------------------------------------------- C16
\* the rows whose pixel extent [i * rowHeight, (i + 1) * rowHeight) meets
\* the viewport [scrollTop, scrollTop + h)
VisibleRows ==
  {i \in 0..(totalRows - 1) :
     i * config.itemHeight < scrollTop + config.h /\ (i + 1) * config.itemHeight > scrollTop}

\* C16: with the default buffer of 3 * visibleCount rows, every row that
\* meets the viewport is Active, whatever scroll signals were handled.
C16_VisibleRowsActive ==
  config.itemBuffer = 0 => VisibleRows \subseteq ActiveSet

\* ------------------------------------------------------------- C17
\* C17: the table and the container agree in every reachable state: every
\* row node in the container (every child but the scroller) is the node of
\* exactly one table entry, and every entry's node is in the container.
C17_TableTreeConsistent ==
  /\ \A n \in RowNodes : Cardinality({i \in Entries : itemsInContainer[i].node = n}) = 1
  /\ \A i \in Entries : itemsInContainer[i].node \in Attached

====
